---- MODULE Spec2Model ----
(***************************************************************************)
(* mdbook-note (src/src/note.rs): extraction of {{#note key}} ... {{#note  *)
(* end}} regions from chapters, the cleaned chapters, and the aggregate    *)
(* chapter tree built from the extracts.                                   *)
(*                                                                         *)
(* A string is a sequence of one-character strings, so that the regex, the *)
(* trim, the split and the ordinal comparison work on characters.          *)
(*                                                                         *)
(*   SpecScan : one chapter through parse_chapter, clean_chapter and       *)
(*              generate_chapter                                           *)
(*   SpecTree : generate_chapter on a list of extracts                      *)
(*   Spec     : Note::run on a book                                        *)
(***************************************************************************)
EXTENDS Integers, Sequences, FiniteSets, TLC

VARIABLES pc, chapter, extracts, cleaned, note_chapter,
          book, cfg, items, new_book, result

vars == <<pc, chapter, extracts, cleaned, note_chapter,
          book, cfg, items, new_book, result>>

\* ------------------------------------------------------------------ bounds

\* regions (well formed or not) in the text of a scanned chapter
MaxRegions == 2
\* extracts handed to generate_chapter
MaxExtracts == 3
\* top-level items of a book
MaxItems == 2

\* --------------------------------------------------------- string helpers

Last(s) == s[Len(s)]
Front(s) == SubSeq(s, 1, Len(s) - 1)

RECURSIVE Reverse(_)
Reverse(s) == IF s = <<>> THEN <<>> ELSE Append(Reverse(Tail(s)), Head(s))

RECURSIVE Flatten(_)
Flatten(ss) == IF ss = <<>> THEN <<>> ELSE Head(ss) \o Flatten(Tail(ss))

\* byte value of a character (ASCII), for the ordinal comparison of String
Code(c) ==
  CASE c = "\n" -> 10  [] c = " " -> 32   [] c = "#" -> 35  [] c = "/" -> 47
    [] c = "9" -> 57   [] c = "a" -> 97   [] c = "b" -> 98  [] c = "c" -> 99
    [] c = "d" -> 100  [] c = "e" -> 101  [] c = "n" -> 110 [] c = "o" -> 111
    [] c = "s" -> 115  [] c = "t" -> 116  [] c = "x" -> 120 [] c = "y" -> 121
    [] c = "z" -> 122  [] c = "{" -> 123  [] c = "|" -> 124 [] c = "}" -> 125

\* a < b for String::cmp (lexicographic on bytes)
RECURSIVE StrLess(_, _)
StrLess(a, b) ==
  IF b = <<>> THEN FALSE
  ELSE IF a = <<>> THEN TRUE
  ELSE IF Head(a) # Head(b) THEN Code(Head(a)) < Code(Head(b))
  ELSE StrLess(Tail(a), Tail(b))

\* str::trim: whitespace removed at both ends
Whitespace == {" ", "\n"}

RECURSIVE TrimStart(_)
TrimStart(s) ==
  IF s # <<>> /\ Head(s) \in Whitespace THEN TrimStart(Tail(s)) ELSE s

RECURSIVE TrimEnd(_)
TrimEnd(s) ==
  IF s # <<>> /\ Last(s) \in Whitespace THEN TrimEnd(Front(s)) ELSE s

Trim(s) == TrimEnd(TrimStart(s))

\* index of the first c in t at or after i, 0 when there is none
RECURSIVE FirstIndex(_, _, _)
FirstIndex(t, i, c) ==
  IF i > Len(t) THEN 0
  ELSE IF t[i] = c THEN i
  ELSE FirstIndex(t, i + 1, c)

StartsWithAt(t, i, p) ==
  /\ i >= 1
  /\ i + Len(p) - 1 <= Len(t)
  /\ SubSeq(t, i, i + Len(p) - 1) = p

\* str::split(c): the pieces between the separators, empty ones included
RECURSIVE Split(_, _)
Split(s, c) ==
  LET i == FirstIndex(s, 1, c)
  IN  IF i = 0 THEN <<s>>
      ELSE <<SubSeq(s, 1, i - 1)>> \o Split(SubSeq(s, i + 1, Len(s)), c)

\* [String]::join(sep)
RECURSIVE Join(_, _)
Join(ss, sep) ==
  IF ss = <<>> THEN <<>>
  ELSE IF Len(ss) = 1 THEN Head(ss)
  ELSE Head(ss) \o sep \o Join(Tail(ss), sep)

\* ------------------------------------------------------------- the regex
\*   \{\{#note ?(?P<key>[^}]*)}}(?P<val>[^\{]*)\{\{#note end}}

StartTag == <<"{", "{", "#", "n", "o", "t", "e">>
KeyClose == <<"}", "}">>
EndTag == <<"{", "{", "#", "n", "o", "t", "e", " ", "e", "n", "d", "}", "}">>

NoMatch == [ok |-> FALSE]

\* The match that starts at s, if any. The optional space is taken when it
\* is there; key runs to the first '}' (it holds none), which must open
\* "}}"; val runs to the first '{' (it holds none), which must open the end
\* marker. No other way to match exists, so backtracking changes nothing.
MatchAt(t, s) ==
  IF ~StartsWithAt(t, s, StartTag) THEN NoMatch
  ELSE
    LET p0 == s + Len(StartTag)
        p  == IF p0 <= Len(t) /\ t[p0] = " " THEN p0 + 1 ELSE p0
        q  == FirstIndex(t, p, "}")
    IN  IF q = 0 \/ ~StartsWithAt(t, q, KeyClose) THEN NoMatch
        ELSE
          LET v == q + Len(KeyClose)
              r == FirstIndex(t, v, "{")
          IN  IF r = 0 \/ ~StartsWithAt(t, r, EndTag) THEN NoMatch
              ELSE [ok |-> TRUE,
                    start |-> s, end |-> r + Len(EndTag) - 1,
                    keyStart |-> p, keyEnd |-> q - 1,
                    valStart |-> v, valEnd |-> r - 1,
                    key |-> SubSeq(t, p, q - 1),
                    val |-> SubSeq(t, v, r - 1)]

\* Regex::captures_iter: the leftmost matches, none overlapping another
RECURSIVE CapturesFrom(_, _)
CapturesFrom(t, s) ==
  IF s > Len(t) THEN <<>>
  ELSE LET m == MatchAt(t, s)
       IN  IF m.ok THEN <<m>> \o CapturesFrom(t, m.end + 1)
           ELSE CapturesFrom(t, s + 1)

captures_iter(t) == CapturesFrom(t, 1)

\* capture(cap, k): the named group, trimmed
capture(cap, k) == Trim(cap[k])

\* ---------------------------------------------------------- parse_chapter

\* the key expression split on '|', each piece trimmed, empty pieces dropped
KeySegments(key) ==
  LET pieces  == Split(key, "|")
      trimmed == [i \in 1..Len(pieces) |-> Trim(pieces[i])]
  IN  SelectSeq(trimmed, LAMBDA s : s # <<>>)

KeysNotReversed(key) == KeySegments(key)

\* keys, after keys.reverse()
Keys(key) == Reverse(KeySegments(key))

FindKeyByPath(key, keys) == keys

\* what find_key is keyed by: the trimmed key text, not the key path
FindKey(key, keys) == key

HeadingVal(name) == <<"#", "#", "#", " ">> \o name

RECURSIVE ParseLoop(_, _, _, _)
ParseLoop(caps, name, find_key, res) ==
  IF caps = <<>> THEN res
  ELSE
    LET cap   == Head(caps)
        key   == capture(cap, "key")
        keys  == Keys(key)
        fk    == FindKey(key, keys)
        first == fk \notin find_key
        res1  == IF first
                 THEN Append(res, [key |-> keys, val |-> HeadingVal(name)])
                 ELSE res
        res2  == Append(res1, [key |-> keys, val |-> capture(cap, "val")])
    IN  ParseLoop(Tail(caps), name, find_key \cup {fk}, res2)

parse_chapter(ch) == ParseLoop(captures_iter(ch.content), ch.name, {}, <<>>)

\* ---------------------------------------------------------- clean_chapter

ExpandTrimmed(cap) == capture(cap, "val")

\* the replacement "$val": the group as matched
Expand(cap) == cap.val

\* Regex::replace_all: the text between the matches kept, each match
\* replaced by its expansion
RECURSIVE ReplaceFrom(_, _, _)
ReplaceFrom(t, caps, last) ==
  IF caps = <<>> THEN SubSeq(t, last, Len(t))
  ELSE SubSeq(t, last, Head(caps).start - 1)
         \o Expand(Head(caps))
         \o ReplaceFrom(t, Tail(caps), Head(caps).end + 1)

replace_all(t) == ReplaceFrom(t, captures_iter(t), 1)

clean_chapter(ch) == [ch EXCEPT !.content = replace_all(ch.content)]

\* ------------------------------------------------------- generate_chapter

None == "None"

\* a Chapter of the book, as a BookItem
Chapter(name, content, number, sub_items, path, parent_names) ==
  [type |-> "Chapter", name |-> name, content |-> content,
   number |-> number, sub_items |-> sub_items, path |-> path,
   source_path |-> None, parent_names |-> parent_names]

\* "## " + current_name.join(" / ")
NodeHeading(parent, name) ==
  <<"#", "#", " ">> \o Join(Append(parent, name), <<" ", "/", " ">>)

ParagraphBreak == <<"\n", "\n">>

\* an extract whose key is used up joins the content of the chapter
PushParagraph(content, val) ==
  IF content # <<>> THEN content \o ParagraphBreak \o val ELSE val

RECURSIVE ContentLoop(_, _)
ContentLoop(exs, content) ==
  IF exs = <<>> THEN content
  ELSE IF Head(exs).key = <<>>
       THEN ContentLoop(Tail(exs), PushParagraph(content, Head(exs).val))
       ELSE ContentLoop(Tail(exs), content)

PoppedFirst(key) == [k |-> Head(key), rest |-> Tail(key)]

\* local.key.pop(): the last segment, and what is left of the key
Popped(key) == [k |-> Last(key), rest |-> Front(key)]

\* the keys of extract_by_key
GroupNames(exs) ==
  {Popped(exs[i].key).k : i \in {j \in 1..Len(exs) : exs[j].key # <<>>}}

\* extract_by_key[k]: the extracts popped to k, in arrival order
GroupList(exs, k) ==
  LET sel == SelectSeq(exs, LAMBDA e : e.key # <<>> /\ Popped(e.key).k = k)
  IN  [i \in 1..Len(sel) |->
         [key |-> Popped(sel[i].key).rest, val |-> sel[i].val]]

RECURSIVE SortDescending(_)
SortDescending(S) ==
  IF S = {} THEN <<>>
  ELSE LET m == CHOOSE x \in S : \A y \in S : y = x \/ StrLess(y, x)
       IN  <<m>> \o SortDescending(S \ {m})

RECURSIVE SortAscending(_)
SortAscending(S) ==
  IF S = {} THEN <<>>
  ELSE LET m == CHOOSE x \in S : \A y \in S : y = x \/ StrLess(x, y)
       IN  <<m>> \o SortAscending(S \ {m})

\* extract_to_sort after sort_by(|a, b| a.name.cmp(&b.name)): whatever order
\* the map is walked in, its distinct keys end in ascending order
SortedNames(S) == SortAscending(S)

SectionFromZero(section, i) == Append(section, i - 1)

\* section.clone() with i pushed; i counts the sorted groups from 1
ChildSection(section, i) == Append(section, i)

RECURSIVE generate_chapter(_, _, _, _)
generate_chapter(exs, name, parent, section) ==
  LET names == SortedNames(GroupNames(exs))
  IN  Chapter(name,
              ContentLoop(exs, NodeHeading(parent, name)),
              section,
              [i \in 1..Len(names) |->
                 generate_chapter(GroupList(exs, names[i]), names[i],
                                  Append(parent, name),
                                  ChildSection(section, i))],
              name,
              parent)

\* run: let mut name = "note"
DefaultName == <<"n", "o", "t", "e">>

\* run: generate_chapter(extracts, name, vec![], vec![99])
RootSection == <<99>>

\* ------------------------------------------------ the texts of SpecScan

\* the start marker as written: {{#note}} or {{#note <key>}}
OpenMarker(key) ==
  StartTag \o (IF key = <<>> THEN <<>> ELSE <<" ">> \o key) \o KeyClose

\* key expressions: none, "a", "a |" (the key path of "a"), "a|b"
RawKeys == {<<>>, <<"a">>, <<"a", " ", "|">>, <<"a", "|", "b">>}

\* payloads: plain, with white space around it, with a '{' in it
Payloads == {<<"x">>, <<" ", "y", "\n">>, <<"{", "z">>}

\* a region, with its end marker or without
Blocks ==
  {OpenMarker(k) \o v \o c : k \in RawKeys, v \in Payloads, c \in {EndTag, <<>>}}

\* outer text "o", then up to n regions each followed by outer text
RECURSIVE Texts(_)
Texts(n) ==
  IF n = 0 THEN {<<"o">>}
  ELSE LET prev == Texts(n - 1)
       IN  prev \cup {t \o b \o <<"o">> : t \in prev, b \in Blocks}

ScanName == <<"c">>

\* ------------------------------------------------------------- SpecScan

InitScan ==
  /\ chapter \in {Chapter(ScanName, t, None, <<>>, None, <<>>) : t \in Texts(MaxRegions)}
  /\ pc = "scan"
  /\ extracts = <<>>
  /\ cleaned = None
  /\ note_chapter = None
  /\ book = <<>> /\ cfg = None /\ items = <<>> /\ new_book = <<>>
  /\ result = None

\* let mut ext = self.parse_chapter(chapter)
ParseChapter ==
  /\ pc = "scan"
  /\ extracts' = parse_chapter(chapter)
  /\ pc' = "parsed"
  /\ UNCHANGED <<chapter, cleaned, note_chapter, book, cfg, items, new_book, result>>

\* let clean = self.clean_chapter(chapter.clone())
CleanChapter ==
  /\ pc = "parsed"
  /\ cleaned' = clean_chapter(chapter)
  /\ pc' = "cleaned"
  /\ UNCHANGED <<chapter, extracts, note_chapter, book, cfg, items, new_book, result>>

\* generate_chapter(extracts, name, vec![], vec![99]), when there are extracts
ScanGenerate ==
  /\ pc = "cleaned"
  /\ extracts # <<>>
  /\ note_chapter' = generate_chapter(extracts, DefaultName, <<>>, RootSection)
  /\ pc' = "generated"
  /\ UNCHANGED <<chapter, extracts, cleaned, book, cfg, items, new_book, result>>

NextScan == ParseChapter \/ CleanChapter \/ ScanGenerate

SpecScan == InitScan /\ [][NextScan]_vars

\* ------------------------------------------- what the scan claims speak of

\* the subsequence of t at the indices in S
Pick(t, S) ==
  LET idx == SelectSeq([i \in 1..Len(t) |-> i], LAMBDA i : i \in S)
  IN  [k \in 1..Len(idx) |-> t[idx[k]]]

\* index of the first occurrence of p in t at or after i, 0 when none
RECURSIVE FirstOccurrence(_, _, _)
FirstOccurrence(t, i, p) ==
  IF i < 1 \/ i + Len(p) - 1 > Len(t) THEN 0
  ELSE IF StartsWithAt(t, i, p) THEN i
  ELSE FirstOccurrence(t, i + 1, p)

ScanCaps == captures_iter(chapter.content)

\* the text between the markers of a match, as written
Inner(cap) == SubSeq(chapter.content, cap.valStart, cap.valEnd)

\* the key expression of a match, as written and trimmed
RawKey(cap) == Trim(SubSeq(chapter.content, cap.keyStart, cap.keyEnd))

\* the payload extracts of the chapter: those that are no heading
PayloadExtracts ==
  SelectSeq(extracts, LAMBDA e : e.val # HeadingVal(chapter.name))

\* the text with each match replaced by the string given for it
RECURSIVE Rebuild(_, _, _, _)
Rebuild(t, caps, with, last) ==
  IF caps = <<>> THEN SubSeq(t, last, Len(t))
  ELSE SubSeq(t, last, Head(caps).start - 1) \o Head(with)
         \o Rebuild(t, Tail(caps), Tail(with), Head(caps).end + 1)

Scanned == pc \in {"cleaned", "generated"}

\* C3 as claimed: the cleaned text is the text with every matched region
\* replaced by the trimmed payload, the value parse_chapter emits for it.
C3_CleanedHasTrimmedPayload ==
  Scanned =>
    cleaned.content =
      Rebuild(chapter.content, ScanCaps,
              [i \in 1..Len(PayloadExtracts) |-> PayloadExtracts[i].val], 1)

\* C3 amended: the cleaned text is the text with the markers of every
\* matched region removed and nothing else: what stood between the markers
\* stays as written, white space included, and its trimmed form is the
\* payload parse_chapter emits for the region; the text outside the regions
\* and the other fields of the chapter are unchanged.
C3_CleanedKeepsInnerVerbatim ==
  Scanned =>
    LET t    == chapter.content
        caps == ScanCaps
        kept == {i \in 1..Len(t) :
                   \A j \in 1..Len(caps) :
                      \/ i < caps[j].start
                      \/ i > caps[j].end
                      \/ (caps[j].valStart <= i /\ i <= caps[j].valEnd)}
    IN  /\ cleaned.content = Pick(t, kept)
        /\ cleaned = [chapter EXCEPT !.content = cleaned.content]
        /\ Len(PayloadExtracts) = Len(caps)
        /\ \A j \in 1..Len(caps) : PayloadExtracts[j].val = Trim(Inner(caps[j]))

\* a region whose payload has white space around it has been cleaned
C3_Witness ==
  /\ Scanned
  /\ \E j \in 1..Len(ScanCaps) : Inner(ScanCaps[j]) # Trim(Inner(ScanCaps[j]))
  /\ cleaned.content # chapter.content

\* C4 as claimed: each distinct key path among the extracts of a chapter
\* carries exactly one heading extract.
C4_OneHeadingPerKeyPath ==
  pc # "scan" =>
    \A k \in {extracts[i].key : i \in 1..Len(extracts)} :
      Cardinality({i \in 1..Len(extracts) :
                     extracts[i].key = k
                     /\ extracts[i].val = HeadingVal(chapter.name)}) = 1

\* C4 amended: each distinct key expression (the trimmed key text as
\* written) among the matched regions carries exactly one heading extract,
\* right before the payload of the first region with that key expression;
\* a later region with a key expression seen before emits its payload only;
\* payloads come in scan order. Two key expressions of one key path ("a",
\* "a |") get a heading each.
C4_OneHeadingPerKeyText ==
  pc # "scan" =>
    LET caps == ScanCaps
        isFirst(i) == \A j \in 1..(i - 1) : RawKey(caps[j]) # RawKey(caps[i])
        path(i) == Reverse(KeySegments(RawKey(caps[i])))
        emitted(i) ==
          (IF isFirst(i)
           THEN <<[key |-> path(i), val |-> HeadingVal(chapter.name)]>>
           ELSE <<>>)
          \o <<[key |-> path(i), val |-> Trim(Inner(caps[i]))]>>
    IN  extracts = Flatten([i \in 1..Len(caps) |-> emitted(i)])

\* two regions with one key expression were parsed: one heading, two payloads
C4_Witness ==
  /\ pc = "parsed"
  /\ Len(ScanCaps) = 2
  /\ RawKey(ScanCaps[1]) = RawKey(ScanCaps[2])
  /\ Len(extracts) = 3

NoNode == [type |-> "None"]

\* the chapter of the tree reached from node by the labels of path, or NoNode
RECURSIVE NodeAt(_, _)
NodeAt(node, path) ==
  IF path = <<>> THEN node
  ELSE LET next == SelectSeq(node.sub_items, LAMBDA c : c.name = Head(path))
       IN  IF next = <<>> THEN NoNode ELSE NodeAt(Head(next), Tail(path))

\* the paragraphs of a content after its heading line
Paragraphs(content) ==
  LET i == FirstOccurrence(content, 1, ParagraphBreak)
  IN  IF i = 0 THEN {}
      ELSE {SubSeq(content, a, b) :
              <<a, b>> \in
                {<<a, b>> \in (1..Len(content)) \X (1..Len(content)) :
                   /\ a <= b
                   /\ StartsWithAt(content, a - Len(ParagraphBreak), ParagraphBreak)
                   /\ (b = Len(content) \/ StartsWithAt(content, b + 1, ParagraphBreak))}}

HasParagraph(node, val) ==
  node.type = "Chapter" /\ val \in Paragraphs(node.content)

\* C5 as claimed: the key path is the segments in the order written
\* ("sub|main" gives <<sub, main>>), and the payload of a region lands in
\* the node reached by taking its segments from the last written to the
\* first (root / main / sub).
C5_LastWrittenConsumedFirst ==
  pc = "generated" =>
    \A j \in 1..Len(ScanCaps) :
      LET segs == KeySegments(RawKey(ScanCaps[j]))
      IN  /\ PayloadExtracts[j].key = segs
          /\ HasParagraph(NodeAt(note_chapter, Reverse(segs)),
                          Trim(Inner(ScanCaps[j])))

\* C5 amended: the key path is the segments in the reverse of the order
\* written ("sub|main" gives <<main, sub>>); generate_chapter takes them from
\* the end, so the first-written segment is consumed first and the payload
\* lands in root / sub / main.
C5_FirstWrittenConsumedFirst ==
  pc = "generated" =>
    \A j \in 1..Len(ScanCaps) :
      LET segs == KeySegments(RawKey(ScanCaps[j]))
      IN  /\ PayloadExtracts[j].key = Reverse(segs)
          /\ HasParagraph(NodeAt(note_chapter, segs), Trim(Inner(ScanCaps[j])))

\* a region written with the key expression a|b has gone into the tree
C5_Witness ==
  /\ pc = "generated"
  /\ \E j \in 1..Len(ScanCaps) : RawKey(ScanCaps[j]) = <<"a", "|", "b">>
  /\ NodeAt(note_chapter, <<<<"a">>, <<"b">>>>).type = "Chapter"

\* the first start marker of the text with the first end marker after it,
\* read as the spec words it: {{#note <key>}} ... {{#note end}}
FirstRegion(t) ==
  LET s == FirstOccurrence(t, 1, StartTag)
      c == IF s = 0 THEN 0 ELSE FirstOccurrence(t, s + Len(StartTag), KeyClose)
      e == IF c = 0 THEN 0 ELSE FirstOccurrence(t, c + Len(KeyClose), EndTag)
  IN  IF e = 0 \/ StartsWithAt(t, s, EndTag) THEN [ok |-> FALSE]
      ELSE [ok |-> TRUE, start |-> s, end |-> e + Len(EndTag) - 1,
            payload |-> Trim(SubSeq(t, c + Len(KeyClose), e - 1))]

\* C9: a start marker followed later by an end marker is matched up to the
\* first end marker after it, whatever stands between them ('{' included);
\* the payload between them is extracted, trimmed, and the markers are gone
\* from the cleaned text. Stated of the first start marker of the text.
C9_RegionAlwaysMatched ==
  Scanned =>
    LET r == FirstRegion(chapter.content)
    IN  r.ok =>
          /\ ScanCaps # <<>>
          /\ ScanCaps[1].start = r.start
          /\ ScanCaps[1].end = r.end
          /\ PayloadExtracts[1].val = r.payload
          /\ cleaned.content # chapter.content

\* ------------------------------------------------------------- SpecTree

\* segment values: "note" (the root's own name) and "o"; "note" < "o" in
\* ordinal order although it is the longer string
Labels == {DefaultName, <<"o">>}

\* key paths of no, one and two segments
KeyPaths ==
  {<<>>} \cup {<<l>> : l \in Labels} \cup {<<l, m>> : l \in Labels, m \in Labels}

Values == {<<"x">>, <<"y">>}

ExtractSet == [key : KeyPaths, val : Values]

RECURSIVE SeqsUpTo(_, _)
SeqsUpTo(S, n) ==
  IF n = 0 THEN {<<>>}
  ELSE LET prev == SeqsUpTo(S, n - 1)
       IN  prev \cup {Append(q, x) : q \in prev, x \in S}

InitTree ==
  /\ extracts \in SeqsUpTo(ExtractSet, MaxExtracts)
  /\ pc = "tree"
  /\ note_chapter = None
  /\ chapter = None /\ cleaned = None
  /\ book = <<>> /\ cfg = None /\ items = <<>> /\ new_book = <<>>
  /\ result = None

\* generate_chapter(extracts, name, vec![], vec![99])
GenerateChapter ==
  /\ pc = "tree"
  /\ note_chapter' = generate_chapter(extracts, DefaultName, <<>>, RootSection)
  /\ pc' = "generated"
  /\ UNCHANGED <<chapter, extracts, cleaned, book, cfg, items, new_book, result>>

NextTree == GenerateChapter

SpecTree == InitTree /\ [][NextTree]_vars

\* ------------------------------------------- what the tree claims speak of

\* the nodes of a tree, each named by the indices that lead to it
RECURSIVE IndexPaths(_)
IndexPaths(node) ==
  {<<>>} \cup
  UNION {{<<i>> \o p : p \in IndexPaths(node.sub_items[i])} :
           i \in 1..Len(node.sub_items)}

RECURSIVE NodeByIndex(_, _)
NodeByIndex(node, ip) ==
  IF ip = <<>> THEN node ELSE NodeByIndex(node.sub_items[Head(ip)], Tail(ip))

\* the labels from below the root down to the node
RECURSIVE LabelPath(_, _)
LabelPath(node, ip) ==
  IF ip = <<>> THEN <<>>
  ELSE <<node.sub_items[Head(ip)].name>>
         \o LabelPath(node.sub_items[Head(ip)], Tail(ip))

\* the labels of a tree, level by level, in sibling order
RECURSIVE Skeleton(_)
Skeleton(node) ==
  [name |-> node.name,
   sub  |-> [i \in 1..Len(node.sub_items) |-> Skeleton(node.sub_items[i])]]

IsPrefix(p, q) == Len(p) <= Len(q) /\ SubSeq(q, 1, Len(p)) = p

Generated == pc = "generated"

\* C6: the children of every node have distinct labels in strictly
\* ascending ordinal order, and every permutation of the extracts gives the
\* same labels in the same order at every level.
C6_ChildrenSortedAnyOrder ==
  Generated =>
    /\ \A ip \in IndexPaths(note_chapter) :
         LET subs == NodeByIndex(note_chapter, ip).sub_items
         IN  \A i \in 1..(Len(subs) - 1) : StrLess(subs[i].name, subs[i + 1].name)
    /\ \A p \in Permutations(1..Len(extracts)) :
         Skeleton(generate_chapter([i \in 1..Len(extracts) |-> extracts[p[i]]],
                                   note_chapter.name, <<>>, RootSection))
           = Skeleton(note_chapter)

\* a node has two children, built from extracts that came in descending order
C6_Witness ==
  /\ Generated
  /\ Len(note_chapter.sub_items) = 2
  /\ extracts[1].key = << <<"o">> >>
  /\ Len(extracts) >= 2 /\ extracts[2].key = <<DefaultName>>

\* C7: the i-th child of a node at position p is at position p followed by
\* i, counting from 1; the root is at the position it was given.
C7_PositionsContiguous ==
  Generated =>
    /\ note_chapter.number = RootSection
    /\ \A ip \in IndexPaths(note_chapter) :
         LET n == NodeByIndex(note_chapter, ip)
         IN  \A i \in 1..Len(n.sub_items) :
               n.sub_items[i].number = n.number \o <<i>>

\* the second child of the root has a child: a grandchild at [99, 2, 1]
C7_Witness ==
  /\ Generated
  /\ Len(note_chapter.sub_items) = 2
  /\ Len(note_chapter.sub_items[2].sub_items) >= 1
  /\ note_chapter.sub_items[2].sub_items[1].number = <<99, 2, 1>>

\* C8: every node's content is its heading, "## " and the labels from the
\* root joined by " / ", followed by the values of exactly the extracts
\* whose key path, read from its last segment to its first, is the node's
\* label path, in arrival order, each after a blank line; every extract has
\* its node, no node exists without an extract at or below it, and no two
\* nodes share a label path.
C8_EachExtractInItsNode ==
  Generated =>
    LET root == note_chapter
        ips  == IndexPaths(root)
        own(P) == SelectSeq(extracts, LAMBDA e : Reverse(e.key) = P)
        body(P) ==
          <<"#", "#", " ">> \o Join(<<root.name>> \o P, <<" ", "/", " ">>)
            \o Flatten([i \in 1..Len(own(P)) |-> <<"\n", "\n">> \o own(P)[i].val])
    IN  /\ \A ip \in ips :
             LET P == LabelPath(root, ip)
                 n == NodeByIndex(root, ip)
             IN  /\ n.content = body(P)
                 /\ n.name = (IF P = <<>> THEN root.name ELSE Last(P))
                 /\ n.parent_names = (IF P = <<>> THEN <<>> ELSE <<root.name>> \o Front(P))
                 /\ (P = <<>> \/ \E i \in 1..Len(extracts) :
                                    IsPrefix(P, Reverse(extracts[i].key)))
        /\ \A ip1 \in ips : \A ip2 \in ips :
             LabelPath(root, ip1) = LabelPath(root, ip2) => ip1 = ip2
        /\ \A i \in 1..Len(extracts) :
             \E ip \in ips : LabelPath(root, ip) = Reverse(extracts[i].key)

\* three extracts: one for the root, two for one node two levels down
C8_Witness ==
  /\ Generated
  /\ Len(extracts) = 3
  /\ extracts[1].key = <<>>
  /\ extracts[2].key = << <<"o">>, DefaultName >>
  /\ extracts[3].key = << <<"o">>, DefaultName >>
  /\ extracts[2].val # extracts[3].val
  /\ Len(NodeAt(note_chapter, << DefaultName, <<"o">> >>).content) > 0

\* C10: any two distinct nodes of the tree have distinct file identifiers.
C10_PathsDistinct ==
  Generated =>
    \A ip1 \in IndexPaths(note_chapter) : \A ip2 \in IndexPaths(note_chapter) :
      ip1 # ip2 =>
        NodeByIndex(note_chapter, ip1).path # NodeByIndex(note_chapter, ip2).path

\* ------------------------------------------------------------ Note::run

Separator == [type |-> "Separator"]
PartTitle(title) == [type |-> "PartTitle", title |-> title]

\* chapter texts of a book: no region, a keyed region whose payload starts
\* with a space, a region without key after outer text
RunTexts ==
  {<<"o">>,
   OpenMarker(<<"a">>) \o <<" ", "x">> \o EndTag,
   <<"o">> \o OpenMarker(<<>>) \o <<"y">> \o EndTag}

\* chapters without sub_items, as they sit below a chapter "c"
SubChapters == {Chapter(<<"s">>, t, None, <<>>, None, <<<<"c">>>>) : t \in RunTexts}

\* top-level chapters, with no sub_items or with one
TopChapters ==
  {Chapter(<<"c">>, t, None, subs, None, <<>>) :
     t \in RunTexts, subs \in {<<>>} \cup {<<sc>> : sc \in SubChapters}}

BookItems == TopChapters \cup {Separator, PartTitle(<<"p">>)}

\* the name option of the preprocessor's configuration: absent, or a string
Configs == {None, <<"o">>}

\* run: name is "note" unless the configuration names another
RunName(c) == IF c = None THEN DefaultName ELSE c

\* Book::iter(): the sections queued; each item leaves at the front, a
\* chapter putting its sub_items in its place (depth first)
IterStart(b) == b
IterNext(queue) ==
  LET item == Head(queue)
  IN  [item |-> item,
       rest |-> IF item.type = "Chapter" THEN item.sub_items \o Tail(queue)
                ELSE Tail(queue)]

NeverEmpty(exs) == FALSE

\* extracts.is_empty()
IsEmpty(exs) == exs = <<>>

Init ==
  /\ book \in SeqsUpTo(BookItems, MaxItems)
  /\ cfg \in Configs
  /\ pc = "loop"
  /\ items = IterStart(book)
  /\ extracts = <<>>
  /\ new_book = <<>>
  /\ result = None
  /\ chapter = None /\ cleaned = None /\ note_chapter = None

\* for item in book.iter(): BookItem::Chapter(chapter)
RunChapter ==
  /\ pc = "loop"
  /\ items # <<>>
  /\ IterNext(items).item.type = "Chapter"
  /\ LET ch == IterNext(items).item
     IN  /\ extracts' = extracts \o parse_chapter(ch)
         /\ new_book' = Append(new_book, clean_chapter(ch))
  /\ items' = IterNext(items).rest
  /\ UNCHANGED <<pc, chapter, cleaned, note_chapter, book, cfg, result>>

\* BookItem::Separator
RunSeparator ==
  /\ pc = "loop"
  /\ items # <<>>
  /\ IterNext(items).item.type = "Separator"
  /\ new_book' = Append(new_book, Separator)
  /\ items' = IterNext(items).rest
  /\ UNCHANGED <<pc, chapter, extracts, cleaned, note_chapter, book, cfg, result>>

\* BookItem::PartTitle(title)
RunPartTitle ==
  /\ pc = "loop"
  /\ items # <<>>
  /\ IterNext(items).item.type = "PartTitle"
  /\ new_book' = Append(new_book, PartTitle(IterNext(items).item.title))
  /\ items' = IterNext(items).rest
  /\ UNCHANGED <<pc, chapter, extracts, cleaned, note_chapter, book, cfg, result>>

\* if extracts.is_empty() { return Ok(book) }
RunReturnBook ==
  /\ pc = "loop"
  /\ items = <<>>
  /\ IsEmpty(extracts)
  /\ result' = book
  /\ pc' = "done"
  /\ UNCHANGED <<chapter, extracts, cleaned, note_chapter, book, cfg, items, new_book>>

\* new_book.push_item(generate_chapter(..)); Ok(new_book)
RunAppendNote ==
  /\ pc = "loop"
  /\ items = <<>>
  /\ ~IsEmpty(extracts)
  /\ note_chapter' = generate_chapter(extracts, RunName(cfg), <<>>, RootSection)
  /\ result' = Append(new_book, note_chapter')
  /\ pc' = "done"
  /\ UNCHANGED <<chapter, extracts, cleaned, book, cfg, items, new_book>>

Next ==
  \/ RunChapter
  \/ RunSeparator
  \/ RunPartTitle
  \/ RunReturnBook
  \/ RunAppendNote

Spec == Init /\ [][Next]_vars

\* -------------------------------------------- what the run claims speak of

\* an item with every chapter in it, at every level, cleaned
RECURSIVE CleanItem(_)
CleanItem(item) ==
  IF item.type # "Chapter" THEN item
  ELSE LET t    == item.content
           caps == captures_iter(t)
           kept == {i \in 1..Len(t) :
                      \A j \in 1..Len(caps) :
                         \/ i < caps[j].start
                         \/ i > caps[j].end
                         \/ (caps[j].valStart <= i /\ i <= caps[j].valEnd)}
       IN  [item EXCEPT
              !.content = Pick(t, kept),
              !.sub_items = [i \in 1..Len(item.sub_items) |->
                               CleanItem(item.sub_items[i])]]

\* does a chapter of these items, at any level, hold a matched region
RECURSIVE AnyRegion(_)
AnyRegion(its) ==
  \E i \in 1..Len(its) :
    /\ its[i].type = "Chapter"
    /\ \/ \E s \in 1..Len(its[i].content) : MatchAt(its[i].content, s).ok
       \/ AnyRegion(its[i].sub_items)

\* C1: when a region is found, the output without its last item is the input
\* item for item: separators and part titles as they were, every chapter in
\* its place and cleaned, at every level, none copied, moved or left as it was.
C1_InputKeptInPlaceCleaned ==
  (pc = "done" /\ AnyRegion(book)) =>
    Front(result) = [i \in 1..Len(book) |-> CleanItem(book[i])]

\* C2: the output ends with exactly one aggregate chapter (label the
\* configured name, no ancestors, position [99]) added to the items run
\* collected, if and only if some chapter holds a matched region; otherwise
\* the output is the input book itself.
C2_AggregateIffRegion ==
  pc = "done" =>
    IF AnyRegion(book)
    THEN /\ Len(result) = Len(new_book) + 1
         /\ Front(result) = new_book
         /\ Last(result).type = "Chapter"
         /\ Last(result).name = (IF cfg = None THEN <<"n", "o", "t", "e">> ELSE cfg)
         /\ Last(result).parent_names = <<>>
         /\ Last(result).number = <<99>>
         /\ \A i \in 1..Len(new_book) :
              new_book[i].type = "Chapter" => new_book[i].number = None
    ELSE result = book

\* run ended on a book with a region, under a configured name
C2_Witness ==
  /\ pc = "done"
  /\ AnyRegion(book)
  /\ cfg # None
  /\ Last(result).number = <<99>>

====
